---- MODULE Spec2Model ----
(***************************************************************************)
(* Detection-decision pipeline of smoke-classifier/detect_fire.py:         *)
(* adaptive historical thresholding (postFilter), the deferred-image       *)
(* temporal-diff queue (getDeferrredImgToProcess, main) and the alert      *)
(* throttle (checkAndUpdateAlerts).                                        *)
(*                                                                         *)
(* Scores are fixed-point hundredths (0.5 is 50, 1.0 is 100); times are    *)
(* integer seconds; local time is taken to be UTC, so that the seconds     *)
(* into the day of a timestamp t are t % 86400.                            *)
(***************************************************************************)
EXTENDS Integers, Sequences, FiniteSets, TLC

VARIABLES
    minusMinutes,       \* main: args.minusMinutes as int, 0 when absent
    cameras,            \* main: dbManager.get_sources(), a list of camera names
    now,                \* time.time()
    counter,            \* the shared sources counter behind getNextSourcesCounter
    deferredImages,     \* main: the DeferredJob queue
    pc,                 \* position of the control thread
    timeStart,          \* main: timeStart of the current cycle
    deferredImageInfo,  \* main: the dequeued job of the cycle, or None
    fetchFor,           \* getNextImage: the cameraID argument of the pending call
    cameraID,           \* main: camera of the fetched frame
    timestamp,          \* main: timestamp of the fetched frame
    imgPath,            \* main: path of the fetched frame
    classifyImgPath,    \* main: path of the image that is classified
    segments,           \* main: sorted segment list of the cycle
    fireSegment,        \* recordFilterReport: postFilter's result
    annotatedFile,      \* recordFilterReport: drawFireBox's result, or None
    dbResult,           \* postFilter: rows of the historical query of the cycle
    baseline,           \* the scores rows that the historical query matched
    queryLog,           \* every historical query issued through dbManager.query
    scores,             \* table scores
    detections,         \* table detections
    alerts,             \* table alerts
    notifications,      \* emails sent by alertFire
    files,              \* image files present in the temporary directory
    cycles,             \* loop iterations started
    fails,              \* fetch failures so far
    procs,              \* alert-throttle processes: per process its call state
    depth,              \* getNextImage, getNextImageFromDir: nested calls of itself
    imgDirectory,       \* main: whether args.imgDirectory is given
    dirFiles,           \* getNextImageFromDir.files
    dirIndex            \* getNextImageFromDir.index

vars == <<minusMinutes, cameras, now, counter, deferredImages, pc, timeStart,
          deferredImageInfo, fetchFor, cameraID, timestamp, imgPath,
          classifyImgPath, segments, fireSegment, annotatedFile, dbResult,
          baseline, queryLog, scores, detections, alerts, notifications,
          files, cycles, fails, procs,
          depth, imgDirectory, dirFiles, dirIndex>>

----------------------------------------------------------------------------
(* Program constants *)

\* postFilter: the .5 of "if segments[0]['score'] < .5" in hundredths
Half == 50
\* postFilter: the 1 of (row['maxs'] + 1)/2 in hundredths
One == 100
\* postFilter: the 0.1 of row['maxs'] + 0.1 in hundredths
Tenth == 10
\* 60*60, one hour in seconds
Hour == 3600
\* seconds of one day: range of (dt.hour*60 + dt.minute)*60 + dt.second
DaySeconds == 86400
\* postFilter: int(24*3.5), the lookback in hours
LookbackHours == 84
\* postFilter, checkAndUpdateAlerts: the 12 of 60*60*12
RecentHours == 12
\* expectedDrainSeconds: seconds per queued image
DrainPerItem == 3
\* getDeferrredImgToProcess, main: the 60 of 60*minusMinutes
Minute == 60
\* main: time.sleep(2) when the camera is already queued
NapSeconds == 2
\* getNextImage: cameraID=None, no camera asked for (falsy)
NoCamera == 0

\* Python's None for values that are records otherwise
None == [isNone |-> TRUE]

----------------------------------------------------------------------------
(* Bounds of the model *)

MaxCameras == 2
MaxCycles == 3
MaxFails == 2
MaxSegments == 2
MaxEvents == 4
MaxQueue == 21

----------------------------------------------------------------------------
(* Helpers *)

Max(a, b) == IF a >= b THEN a ELSE b

\* recordScores, postFilter: (dt.hour * 60 + dt.minute) * 60 + dt.second
SecondsInDay(t) == t % DaySeconds

RECURSIVE SumAt(_, _)
\* sum of the Score column over the rows of table tbl at the indexes I
SumAt(tbl, I) ==
    IF I = {} THEN 0
    ELSE LET i == CHOOSE x \in I : TRUE IN tbl[i].Score + SumAt(tbl, I \ {i})

\* max of the Score column over the rows of table tbl at the indexes I
MaxAt(tbl, I) == CHOOSE m \in {tbl[i].Score : i \in I} : \A i \in I : tbl[i].Score <= m

\* a table's rows after the first n
RowsAfter(tbl, n) == {tbl[i] : i \in (n + 1)..Len(tbl)}

----------------------------------------------------------------------------
(* Files of the temporary directory *)

\* img_archive.getImgPath(tmpDir, camera, timestamp): the name encodes both
GetImgPath(camera, t) ==
    [cameraID |-> camera, unixTime |-> t, diffMinutes |-> 0, part |-> "img"]

\* genDiffImage: the frame's parsed name with diffMinutes set, repacked
DiffPath(path, mm) == [path EXCEPT !.diffMinutes = mm]

\* drawFireBox: filePathParts[0] + '_Score' + filePathParts[1]
ScorePath(path) == [path EXCEPT !.part = "img_Score"]

\* rect_to_squares.cutBoxes: one crop file per segment beside the image
CropPath(path, i) == [path EXCEPT !.part = <<"crop1", "crop2", "crop3">>[i]]

----------------------------------------------------------------------------
(* recordScores *)

ScoreRow(camera, t, seg, mm) ==
    [CameraName |-> camera, Timestamp |-> t,
     MinX |-> seg.MinX, MinY |-> seg.MinY, MaxX |-> seg.MaxX, MaxY |-> seg.MaxY,
     Score |-> seg.score, MinusMinutes |-> mm, SecondsInDay |-> SecondsInDay(t)]

\* one row per segment, in list order, appended to table scores
RecordScores(tbl, camera, t, segs, mm) ==
    tbl \o [i \in 1..Len(segs) |-> ScoreRow(camera, t, segs[i], mm)]

----------------------------------------------------------------------------
(* postFilter *)

\* HistoryMatch without the CameraName condition
HistoryMatchAnyCamera(tbl, camera, t) ==
    {i \in DOMAIN tbl :
        /\ tbl[i].Timestamp > t - Hour * LookbackHours
        /\ tbl[i].Timestamp < t - Hour * RecentHours
        /\ tbl[i].SecondsInDay > SecondsInDay(t) - Hour
        /\ tbl[i].SecondsInDay < SecondsInDay(t) + Hour}

\* HistoryMatch without the upper bound t - 12 hours on Timestamp
HistoryMatchNoRecent(tbl, camera, t) ==
    {i \in DOMAIN tbl :
        /\ tbl[i].CameraName = camera
        /\ tbl[i].Timestamp > t - Hour * LookbackHours
        /\ tbl[i].SecondsInDay > SecondsInDay(t) - Hour
        /\ tbl[i].SecondsInDay < SecondsInDay(t) + Hour}

\* the WHERE clause of sqlTemplate: indexes of the rows of scores it selects
HistoryMatch(tbl, camera, t) ==
    {i \in DOMAIN tbl :
        /\ tbl[i].CameraName = camera
        /\ tbl[i].Timestamp > t - Hour * LookbackHours
        /\ tbl[i].Timestamp < t - Hour * RecentHours
        /\ tbl[i].SecondsInDay > SecondsInDay(t) - Hour
        /\ tbl[i].SecondsInDay < SecondsInDay(t) + Hour}

BoxOf(r) == <<r.MinX, r.MinY, r.MaxX, r.MaxY>>

\* GROUP BY MinX,MinY,MaxX,MaxY with count(*), avg(score), max(score);
\* avg is kept exact as the pair sum over count
HistoryRows(tbl, camera, t) ==
    LET I == HistoryMatch(tbl, camera, t)
        G(b) == {i \in I : BoxOf(tbl[i]) = b}
    IN  {[minx |-> b[1], miny |-> b[2], maxx |-> b[3], maxy |-> b[4],
          cnt |-> Cardinality(G(b)),
          avgs |-> [num |-> SumAt(tbl, G(b)), den |-> Cardinality(G(b))],
          maxs |-> MaxAt(tbl, G(b))] : b \in {BoxOf(tbl[i]) : i \in I}}

\* the condition of the inner loop: the row is the segment's group
RowMatches(row, seg) ==
    /\ row.minx = seg.MinX
    /\ row.miny = seg.MinY
    /\ row.maxx = seg.MaxX
    /\ row.maxy = seg.MaxY

\* Threshold2 without the margin of 0.1 above the maximum
Threshold2Halfway(maxs) == maxs + One

\* twice the threshold max((row['maxs'] + 1)/2, row['maxs'] + 0.1)
Threshold2(maxs) == Max(maxs + One, 2 * (maxs + Tenth))

\* segmentInfo['score'] > threshold
AboveThreshold(score, maxs) == 2 * score > Threshold2(maxs)

WithHistory(seg, row) ==
    [MinX |-> seg.MinX, MinY |-> seg.MinY, MaxX |-> seg.MaxX, MaxY |-> seg.MaxY,
     score |-> seg.score, imgPath |-> seg.imgPath,
     HistAvg |-> row.avgs, HistMax |-> row.maxs, HistNumSamples |-> row.cnt]

RECURSIVE ScanRowsLastTie(_, _, _)
\* ScanRows with score >= maxFireScore in place of score > maxFireScore
ScanRowsLastTie(todo, i, st) ==
    IF todo = {} THEN st
    ELSE LET row == CHOOSE r \in todo : TRUE
             seg == st.segs[i]
             hit == /\ row.minx = seg.MinX /\ row.miny = seg.MinY
                    /\ row.maxx = seg.MaxX /\ row.maxy = seg.MaxY
                    /\ 2 * seg.score > Max(row.maxs + One, 2 * (row.maxs + Tenth))
                    /\ seg.score >= st.maxFireScore
             new == [MinX |-> seg.MinX, MinY |-> seg.MinY, MaxX |-> seg.MaxX,
                     MaxY |-> seg.MaxY, score |-> seg.score, imgPath |-> seg.imgPath,
                     HistAvg |-> row.avgs, HistMax |-> row.maxs,
                     HistNumSamples |-> row.cnt]
         IN  ScanRowsLastTie(todo \ {row}, i,
                      IF hit
                      THEN [maxFireSegment |-> new, maxFireScore |-> seg.score,
                            segs |-> [st.segs EXCEPT ![i] = new]]
                      ELSE st)

RECURSIVE ScanRows(_, _, _)
\* the inner loop "for row in dbResult" for segment st.segs[i]; st is the loop
\* state: maxFireSegment, maxFireScore and the (mutated) segment list
ScanRows(todo, i, st) ==
    IF todo = {} THEN st
    ELSE LET row == CHOOSE r \in todo : TRUE
             seg == st.segs[i]
             hit == /\ RowMatches(row, seg)
                    /\ AboveThreshold(seg.score, row.maxs)
                    /\ seg.score > st.maxFireScore
             new == WithHistory(seg, row)
         IN  ScanRows(todo \ {row}, i,
                      IF hit
                      THEN [maxFireSegment |-> new, maxFireScore |-> seg.score,
                            segs |-> [st.segs EXCEPT ![i] = new]]
                      ELSE st)

RECURSIVE ScanSegments(_, _, _)

\* postFilter without the early return on a top score below 0.5
postFilterAlwaysQuery(tbl, camera, t, segs) ==
    LET rows == HistoryRows(tbl, camera, t)
        st == ScanSegments(rows, 1,
                  [maxFireSegment |-> None, maxFireScore |-> 0, segs |-> segs])
    IN  [fireSegment |-> st.maxFireSegment, queried |-> TRUE, dbResult |-> rows,
         matched |-> {tbl[i] : i \in HistoryMatch(tbl, camera, t)},
         segs |-> st.segs]

\* the outer loop "for segmentInfo in segments" from index i on
ScanSegments(rows, i, st) ==
    IF i > Len(st.segs) THEN st
    ELSE IF st.segs[i].score < Half THEN st
    ELSE ScanSegments(rows, i + 1, ScanRows(rows, i, st))

\* postFilter(dbManager, camera, timestamp, segments) on table scores:
\* queried tells whether dbManager.query ran
postFilter(tbl, camera, t, segs) ==
    IF segs[1].score < Half
    THEN [fireSegment |-> None, queried |-> FALSE, dbResult |-> {},
          matched |-> {}, segs |-> segs]
    ELSE LET rows == HistoryRows(tbl, camera, t)
             st == ScanSegments(rows, 1,
                       [maxFireSegment |-> None, maxFireScore |-> 0, segs |-> segs])
         IN  [fireSegment |-> st.maxFireSegment, queried |-> TRUE, dbResult |-> rows,
              matched |-> {tbl[i] : i \in HistoryMatch(tbl, camera, t)},
              segs |-> st.segs]

\* the parameters of the historical query, as logged
HistoryQuery(camera, t) ==
    [table |-> "scores", CameraName |-> camera,
     after |-> t - Hour * LookbackHours, before |-> t - Hour * RecentHours,
     sidAfter |-> SecondsInDay(t) - Hour, sidBefore |-> SecondsInDay(t) + Hour]

\* recordFilterReport line 476: fireSegment = postFilter(...)
PostFilter ==
    /\ pc = "postFilter"
    /\ LET r == postFilter(scores, cameraID, timestamp, segments)
       IN  /\ fireSegment' = r.fireSegment
           /\ segments' = r.segs
           /\ dbResult' = r.dbResult
           /\ baseline' = r.matched
           /\ queryLog' = IF r.queried
                          THEN Append(queryLog, HistoryQuery(cameraID, timestamp))
                          ELSE queryLog
    /\ pc' = "report"
    /\ UNCHANGED <<minusMinutes, cameras, now, counter, deferredImages, timeStart,
                   deferredImageInfo, fetchFor, imgPath, classifyImgPath,
                   cameraID, timestamp, annotatedFile, scores, detections, alerts,
                   notifications, files, cycles, fails, procs,
                   depth, imgDirectory, dirFiles, dirIndex>>

----------------------------------------------------------------------------
(* Inputs *)

\* bounding boxes cut from an image: MinX, MinY, MaxX, MaxY of each segment
BoxList == << <<0, 0, 299, 299>>, <<150, 0, 449, 299>>, <<0, 150, 299, 449>> >>

\* a classified segment: box number b of the image at path, with its score
Segment(b, score, path) ==
    [MinX |-> BoxList[b][1], MinY |-> BoxList[b][2],
     MaxX |-> BoxList[b][3], MaxY |-> BoxList[b][4],
     score |-> score, imgPath |-> CropPath(path, b)]

\* segments.sort(key=lambda x: -x['score']): descending by score
IsSorted(segs) == \A i \in 1..(Len(segs) - 1) : segs[i].score >= segs[i + 1].score

\* the sorted lists segmentAndClassify can return for the image at path with
\* n segments of distinct boxes and scores from grid
SegmentLists(n, grid, path) ==
    {segs \in [1..n -> {Segment(b, sc, path) : b \in 1..n, sc \in grid}] :
        /\ \A i, j \in 1..n : i # j => BoxOf(segs[i]) # BoxOf(segs[j])
        /\ IsSorted(segs)}

\* a set of rows as a table, in a fixed order
RECURSIVE TableOf(_)
TableOf(S) ==
    IF S = {} THEN <<>>
    ELSE LET r == CHOOSE x \in S : TRUE IN <<r>> \o TableOf(S \ {r})

\* values of the variables that a specification does not use
IdleLoop ==
    /\ minusMinutes = 0 /\ cameras = <<1>> /\ now = 0 /\ counter = 0
    /\ deferredImages = <<>> /\ timeStart = 0 /\ deferredImageInfo = None
    /\ fetchFor = NoCamera /\ imgPath = None /\ classifyImgPath = None
    /\ annotatedFile = None /\ files = {} /\ cycles = 0 /\ fails = 0

IdleSource ==
    /\ depth = 0 /\ imgDirectory = FALSE /\ dirFiles = <<>> /\ dirIndex = 0 - 1

IdleStore ==
    /\ detections = <<>> /\ alerts = <<>> /\ notifications = <<>>
    /\ queryLog = <<>> /\ dbResult = {} /\ baseline = {} /\ fireSegment = None

----------------------------------------------------------------------------
(* postFilter alone, on bounded inputs *)

\* time of the decision in the calls of SpecFilter
FilterTime == 4 * DaySeconds + 10 * Hour

\* a scores row of camera for box b at the given age before FilterTime
HistRow(camera, b, score, age) ==
    ScoreRow(camera, FilterTime - age, Segment(b, score, None), 0)

\* rows the store may hold besides in-window ones: the cycle's own row, one
\* older than the lookback, one of another hour of the day, one of another camera
OtherRows ==
    {HistRow(1, 1, 100, 0), HistRow(1, 1, 100, 4 * DaySeconds),
     HistRow(1, 1, 100, 36 * Hour), HistRow(2, 1, 100, DaySeconds)}

\* in-window rows of camera 1 for the first two boxes
WindowRows ==
    {HistRow(1, b, sc, age) : b \in 1..2, sc \in {30, 60, 80},
                              age \in {DaySeconds}}

InitFilter ==
    /\ IdleLoop /\ IdleStore /\ IdleSource /\ procs = <<>>
    /\ pc = "postFilter"
    /\ cameraID = 1
    /\ timestamp = FilterTime
    /\ \/ \* one segment against one historical group, every score and maximum
          /\ \E sc \in 0..One, m \in 0..One :
                /\ segments = <<Segment(1, sc, None)>>
                /\ scores = <<HistRow(1, 1, m, DaySeconds)>>
       \/ \* several segments against several groups
          /\ \E n \in 1..MaxSegments :
                segments \in SegmentLists(n, {40, 70, 90}, None)
          /\ \E W \in SUBSET WindowRows, O \in SUBSET OtherRows :
                scores = TableOf(W \cup O)

SpecFilter == InitFilter /\ [][PostFilter]_vars

----------------------------------------------------------------------------
(* postFilter for decisions near midnight and at mid-morning *)

\* decision times: 00:30, 10:00 and 23:30 of the fifth day
BandTimes == {4 * DaySeconds + 30 * Minute, 4 * DaySeconds + 10 * Hour,
              4 * DaySeconds + 23 * Hour + 30 * Minute}

\* ages of the rows in the store: one to three days back, at the same time of
\* day, 45 minutes off it either way, or two hours off it
BandAges == {DaySeconds, DaySeconds + 45 * Minute, DaySeconds - 45 * Minute,
             2 * DaySeconds + 45 * Minute, 3 * DaySeconds - 45 * Minute,
             DaySeconds + 2 * Hour}

InitBand ==
    /\ IdleLoop /\ IdleStore /\ IdleSource /\ procs = <<>>
    /\ pc = "postFilter"
    /\ cameraID = 1
    /\ timestamp \in BandTimes
    /\ \E sc \in {40, 70, 90} : segments = <<Segment(1, sc, None)>>
    /\ \E A \in SUBSET BandAges :
          scores = TableOf({ScoreRow(1, timestamp - age, Segment(1, 60, None), 0) :
                               age \in A})

SpecBand == InitBand /\ [][PostFilter]_vars

----------------------------------------------------------------------------
(* getDeferrredImgToProcess *)

\* expectedDrainSeconds with 2 seconds for each queued image
expectedDrainSecondsShort(queue) == Len(queue) * 2

expectedDrainSeconds(queue) == Len(queue) * DrainPerItem

\* getDeferrredImgToProcess with runTime <= currentTime in place of <
getDeferrredImgToProcessAtRunTime(queue, mm, currentTime) ==
    IF mm = 0 THEN [img |-> None, queue |-> queue]
    ELSE IF Len(queue) = 0 THEN [img |-> None, queue |-> queue]
    ELSE IF \/ expectedDrainSeconds(queue) >= Minute * mm
            \/ queue[1].runTime <= currentTime
         THEN [img |-> queue[1], queue |-> Tail(queue)]
         ELSE [img |-> None, queue |-> queue]

\* getDeferrredImgToProcess with the comparison of runTime turned round
getDeferrredImgToProcessInverted(queue, mm, currentTime) ==
    IF mm = 0 THEN [img |-> None, queue |-> queue]
    ELSE IF Len(queue) = 0 THEN [img |-> None, queue |-> queue]
    ELSE IF \/ expectedDrainSeconds(queue) >= Minute * mm
            \/ queue[1].runTime > currentTime
         THEN [img |-> queue[1], queue |-> Tail(queue)]
         ELSE [img |-> None, queue |-> queue]

\* the returned job (or None) and the queue after the call
getDeferrredImgToProcess(queue, mm, currentTime) ==
    IF mm = 0 THEN [img |-> None, queue |-> queue]
    ELSE IF Len(queue) = 0 THEN [img |-> None, queue |-> queue]
    ELSE IF \/ expectedDrainSeconds(queue) >= Minute * mm
            \/ queue[1].runTime < currentTime
         THEN [img |-> queue[1], queue |-> Tail(queue)]
         ELSE [img |-> None, queue |-> queue]

\* main lines 569-573: the job appended for a fresh frame
DeferredJob(start, mm, camera, path) ==
    [runTime |-> start + Minute * mm, cameraID |-> camera, imgPath |-> path]

(* getDeferrredImgToProcess alone, on bounded inputs *)

\* the runTime of the head job in the calls of SpecReady
ReadyTime == 100 * Minute

\* a queue of n jobs of cameras 1..n whose runTime grows by d per place
QueueOf(n, d) ==
    [i \in 1..n |-> [runTime |-> ReadyTime + d * (i - 1), cameraID |-> i,
                     imgPath |-> GetImgPath(i, ReadyTime + d * (i - 1))]]

InitReady ==
    /\ IdleStore /\ IdleSource /\ procs = <<>> /\ scores = <<>> /\ segments = <<>>
    /\ cameras = <<1>> /\ counter = 0 /\ timeStart = 0 /\ deferredImageInfo = None
    /\ fetchFor = NoCamera /\ imgPath = None /\ classifyImgPath = None
    /\ annotatedFile = None /\ files = {} /\ cycles = 0 /\ fails = 0
    /\ cameraID = NoCamera /\ timestamp = 0
    /\ pc = "ready"
    /\ minusMinutes \in 1..2
    /\ now \in (ReadyTime - 2)..(ReadyTime + 2)
    /\ \E n \in 0..MaxQueue, d \in {-1, 0, 1} : deferredImages = QueueOf(n, d)

\* main line 551 with timeStart = now
CallNextReady ==
    /\ pc = "ready"
    /\ LET r == getDeferrredImgToProcess(deferredImages, minusMinutes, now)
       IN  /\ deferredImageInfo' = r.img
           /\ deferredImages' = r.queue
    /\ timeStart' = now
    /\ pc' = "returned"
    /\ UNCHANGED <<minusMinutes, cameras, now, counter, fetchFor, cameraID,
                   timestamp, imgPath, classifyImgPath, segments, fireSegment,
                   annotatedFile, dbResult, baseline, queryLog, scores, detections,
                   alerts, notifications, files, cycles, fails, procs,
                   depth, imgDirectory, dirFiles, dirIndex>>

SpecReady == InitReady /\ [][CallNextReady]_vars

----------------------------------------------------------------------------
(* checkAndUpdateAlerts *)

\* AlertQuery with a window of 60*12 seconds in place of 60*60*12
AlertQueryMinutes(tbl, camera, t) ==
    {i \in DOMAIN tbl : /\ tbl[i].CameraName = camera
                        /\ tbl[i].Timestamp > t - Minute * RecentHours}

\* SELECT * FROM alerts where CameraName=camera and timestamp > t - 12 hours
AlertQuery(tbl, camera, t) ==
    {i \in DOMAIN tbl : /\ tbl[i].CameraName = camera
                        /\ tbl[i].Timestamp > t - Hour * RecentHours}

\* driveFileIDs[0] if driveFileIDs else ''
FirstId(driveFileIDs) ==
    IF driveFileIDs # <<>> THEN driveFileIDs[1] ELSE [id |-> None]

AlertRow(camera, t, driveFileIDs) ==
    [CameraName |-> camera, Timestamp |-> t, ImageID |-> FirstId(driveFileIDs)]

\* checkAndUpdateAlerts returning True also when a recent alert was found
checkAndUpdateAlertsAlwaysNew(tbl, camera, t, driveFileIDs) ==
    IF Cardinality(AlertQuery(tbl, camera, t)) > 0
    THEN [new |-> TRUE, alerts |-> tbl]
    ELSE [new |-> TRUE, alerts |-> Append(tbl, AlertRow(camera, t, driveFileIDs))]

\* the whole call when nothing else touches table alerts in between
checkAndUpdateAlerts(tbl, camera, t, driveFileIDs) ==
    IF Cardinality(AlertQuery(tbl, camera, t)) > 0
    THEN [new |-> FALSE, alerts |-> tbl]
    ELSE [new |-> TRUE, alerts |-> Append(tbl, AlertRow(camera, t, driveFileIDs))]

(* checkAndUpdateAlerts called by detection processes that share table alerts: *)
(* each call is a query followed, when the query found nothing, by an insert  *)

\* timestamps of the DetectionEvents of SpecThrottle and SpecRace
EventTimes == {0, Hour, 12 * Hour, 13 * Hour}

IdleProc == [pc |-> "idle", camera |-> NoCamera, timestamp |-> 0, found |-> 0]

InitAlerts(nprocs) ==
    /\ IdleLoop /\ IdleStore /\ IdleSource
    /\ scores = <<>> /\ segments = <<>> /\ cameraID = NoCamera /\ timestamp = 0
    /\ pc = "alerts"
    /\ procs = [p \in 1..nprocs |-> IdleProc]

\* recordFilterReport lines 480-481: a detection is recorded and process p
\* enters checkAndUpdateAlerts(dbManager, camera, t, driveFileIDs)
AlertCall(p) ==
    /\ pc = "alerts"
    /\ procs[p].pc = "idle"
    /\ cycles < MaxEvents
    /\ \E camera \in 1..MaxCameras, t \in EventTimes :
          /\ procs' = [procs EXCEPT ![p] = [pc |-> "query", camera |-> camera,
                                            timestamp |-> t, found |-> 0]]
          /\ detections' = Append(detections,
                                  [CameraName |-> camera, Timestamp |-> t])
    /\ cycles' = cycles + 1
    /\ UNCHANGED <<minusMinutes, cameras, now, counter, deferredImages, pc,
                   timeStart, deferredImageInfo, fetchFor, cameraID, timestamp,
                   imgPath, classifyImgPath, segments, fireSegment, annotatedFile,
                   dbResult, baseline, queryLog, scores, alerts, notifications,
                   files, fails,
                   depth, imgDirectory, dirFiles, dirIndex>>

\* checkAndUpdateAlerts line 386: dbResult = dbManager.query(sqlStr)
AlertLookup(p) ==
    /\ pc = "alerts"
    /\ procs[p].pc = "query"
    /\ procs' = [procs EXCEPT
                   ![p].found = Cardinality(AlertQuery(alerts, procs[p].camera,
                                                       procs[p].timestamp)),
                   ![p].pc = "decide"]
    /\ UNCHANGED <<minusMinutes, cameras, now, counter, deferredImages, pc,
                   timeStart, deferredImageInfo, fetchFor, cameraID, timestamp,
                   imgPath, classifyImgPath, segments, fireSegment, annotatedFile,
                   dbResult, baseline, queryLog, scores, detections, alerts,
                   notifications, files, cycles, fails,
                   depth, imgDirectory, dirFiles, dirIndex>>

\* checkAndUpdateAlerts lines 387-397, and alertFire when it returned True
AlertDecide(p) ==
    /\ pc = "alerts"
    /\ procs[p].pc = "decide"
    /\ IF procs[p].found > 0
       THEN UNCHANGED <<alerts, notifications>>
       ELSE /\ alerts' = Append(alerts, AlertRow(procs[p].camera,
                                                 procs[p].timestamp, <<>>))
            /\ notifications' = Append(notifications,
                                       [camera |-> procs[p].camera,
                                        timestamp |-> procs[p].timestamp])
    /\ procs' = [procs EXCEPT ![p] = IdleProc]
    /\ UNCHANGED <<minusMinutes, cameras, now, counter, deferredImages, pc,
                   timeStart, deferredImageInfo, fetchFor, cameraID, timestamp,
                   imgPath, classifyImgPath, segments, fireSegment, annotatedFile,
                   dbResult, baseline, queryLog, scores, detections, files,
                   cycles, fails,
                   depth, imgDirectory, dirFiles, dirIndex>>

NextAlerts ==
    \/ \E p \in DOMAIN procs : AlertCall(p)
    \/ \E p \in DOMAIN procs : AlertLookup(p)
    \/ \E p \in DOMAIN procs : AlertDecide(p)

\* one detection process
SpecThrottle == InitAlerts(1) /\ [][NextAlerts]_vars

\* two cooperating detection processes on the same store
SpecRace == InitAlerts(2) /\ [][NextAlerts]_vars

----------------------------------------------------------------------------
(* The orchestrator loop of main, camera mode *)

\* seconds that may pass between two readings of the clock at the loop head
Steps == {1, Minute + 1, DaySeconds}

\* scores the classifier may give a segment
ClassifierScores == {40, 90}

\* Matches looking at the head of the queue only
MatchesHead(queue, camera) ==
    IF queue = <<>> THEN <<>>
    ELSE SelectSeq(<<queue[1]>>, LAMBDA x : x.cameraID = camera)

\* Matches finding nothing: the check for a queued camera left out
MatchesNone(queue, camera) == <<>>

\* main line 563: the queued jobs of the camera
Matches(queue, camera) == SelectSeq(queue, LAMBDA x : x.cameraID = camera)

\* the shared counter of the camera-source table: a read returns the counter
\* and advances it by one
getNextSourcesCounter(cnt) == [value |-> cnt, counter |-> cnt + 1]

\* PickCamera indexing the cameras modulo one less than their number
PickCameraShort(cams, asked, cnt) ==
    IF asked # NoCamera
    THEN [camera |-> (CHOOSE i \in DOMAIN cams : cams[i] = asked), counter |-> cnt]
    ELSE [camera |-> cams[(cnt % Max(Len(cams) - 1, 1)) + 1], counter |-> cnt + 1]

\* getNextImage lines 69-73: the camera asked for, else the one the shared
\* counter selects
PickCamera(cams, asked, cnt) ==
    IF asked # NoCamera
    THEN [camera |-> (CHOOSE i \in DOMAIN cams : cams[i] = asked), counter |-> cnt]
    ELSE LET r == getNextSourcesCounter(cnt)
         IN  [camera |-> cams[(r.value % Len(cams)) + 1], counter |-> r.counter]

\* getNextImage line 81: the call made after a failed fetch
RetryFor(asked) == NoCamera

\* table scores as an earlier run of the process may have left it: a row of
\* camera 1 written one day before the loop starts
EarlierRows == <<ScoreRow(1, 0 - DaySeconds, Segment(1, 40, None), 0)>>

Init ==
    /\ IdleStore /\ IdleSource /\ procs = <<>>
    /\ minusMinutes \in {0, 1}
    /\ \E n \in 1..MaxCameras : cameras = [i \in 1..n |-> i]
    /\ now = 0 /\ counter \in {0, 1} /\ deferredImages = <<>>
    /\ pc = "select"
    /\ timeStart = 0 /\ deferredImageInfo = None /\ fetchFor = NoCamera
    /\ cameraID = NoCamera /\ timestamp = 0
    /\ imgPath = None /\ classifyImgPath = None
    /\ segments = <<>> /\ annotatedFile = None
    /\ scores \in {<<>>, EarlierRows}
    /\ files = {} /\ cycles = 0 /\ fails = 0

\* main lines 550-558: read the clock, ask the queue for a ready job and
\* call getNextImage for its camera, getNextImageFromDir in directory mode,
\* or getNextImage for the round-robin camera
Select ==
    /\ pc = "select"
    /\ imgDirectory \/ cycles < MaxCycles
    /\ \E step \in Steps : now' = now + step
    /\ timeStart' = now'
    /\ LET r == getDeferrredImgToProcess(deferredImages, minusMinutes, now')
       IN  /\ deferredImageInfo' = r.img
           /\ deferredImages' = r.queue
           /\ fetchFor' = IF r.img # None THEN r.img.cameraID ELSE NoCamera
    /\ cycles' = cycles + 1
    /\ pc' = IF deferredImageInfo' = None /\ imgDirectory THEN "fetchDir" ELSE "fetch"
    /\ UNCHANGED <<minusMinutes, cameras, counter, cameraID, timestamp, imgPath,
                   classifyImgPath, segments, fireSegment, annotatedFile,
                   dbResult, baseline, queryLog, scores, detections, alerts,
                   notifications, files, fails, procs,
                   depth, imgDirectory, dirFiles, dirIndex>>

\* nested calls at which the interpreter raises RecursionError: Python's
\* default recursion limit, which the program leaves as it is
RecursionLimit == 1000

\* getNextImage lines 69-78, 82: urlretrieve succeeds and the nested calls
\* return
FetchOk ==
    /\ pc = "fetch"
    /\ LET r == PickCamera(cameras, fetchFor, counter)
       IN  /\ counter' = r.counter
           /\ cameraID' = cameras[r.camera]
           /\ timestamp' = now
           /\ imgPath' = GetImgPath(cameras[r.camera], now)
           /\ files' = files \cup {GetImgPath(cameras[r.camera], now)}
    /\ depth' = 0
    /\ pc' = "route"
    /\ UNCHANGED <<minusMinutes, cameras, now, deferredImages, timeStart,
                   deferredImageInfo, fetchFor, classifyImgPath, segments,
                   fireSegment, annotatedFile, dbResult, baseline, queryLog,
                   scores, detections, alerts, notifications, cycles, fails,
                   procs, imgDirectory, dirFiles, dirIndex>>

\* getNextImage lines 69-81: urlretrieve raises and getNextImage calls itself
\* from the except block; the call that exceeds the recursion limit raises
\* RecursionError, which no frame catches
Retry(maxFails) ==
    /\ pc = "fetch"
    /\ fails < maxFails
    /\ counter' = PickCamera(cameras, fetchFor, counter).counter
    /\ fetchFor' = RetryFor(fetchFor)
    /\ fails' = fails + 1
    /\ depth' = depth + 1
    /\ pc' = IF depth + 1 < RecursionLimit THEN "fetch" ELSE "crashed"
    /\ UNCHANGED <<minusMinutes, cameras, now, deferredImages, timeStart,
                   deferredImageInfo, cameraID, timestamp, imgPath,
                   classifyImgPath, segments, fireSegment, annotatedFile,
                   dbResult, baseline, queryLog, scores, detections, alerts,
                   notifications, files, cycles, procs, imgDirectory, dirFiles,
                   dirIndex>>

\* a failed fetch of the main loop's runs, which bound the failures of a run
FetchFail == Retry(MaxFails)

\* AlreadyQueued with assert len(matches) == 0: any queued job of the camera
\* fails the assertion
AlreadyQueuedFatal ==
    /\ pc = "route"
    /\ minusMinutes # 0 /\ deferredImageInfo = None
    /\ Len(SelectSeq(deferredImages, LAMBDA x : x.cameraID = cameraID)) > 0
    /\ pc' = "crashed"
    /\ classifyImgPath' = imgPath
    /\ UNCHANGED <<minusMinutes, cameras, now, counter, deferredImages, timeStart,
                   deferredImageInfo, fetchFor, cameraID, timestamp, imgPath,
                   segments, fireSegment, annotatedFile, dbResult, baseline,
                   queryLog, scores, detections, alerts, notifications, files,
                   cycles, fails, procs,
                   depth, imgDirectory, dirFiles, dirIndex>>

\* main lines 561-568: temporal-diff mode, fresh frame, camera already queued
AlreadyQueued ==
    /\ pc = "route"
    /\ minusMinutes # 0 /\ deferredImageInfo = None
    /\ Len(Matches(deferredImages, cameraID)) > 0
    /\ IF Len(Matches(deferredImages, cameraID)) = 1
       THEN /\ now' = now + NapSeconds
            /\ pc' = "select"
       ELSE /\ now' = now
            /\ pc' = "crashed"
    /\ classifyImgPath' = imgPath
    /\ UNCHANGED <<minusMinutes, cameras, counter, deferredImages, timeStart,
                   deferredImageInfo, fetchFor, cameraID, timestamp, imgPath,
                   segments, fireSegment, annotatedFile, dbResult, baseline,
                   queryLog, scores, detections, alerts, notifications, files,
                   cycles, fails, procs,
                   depth, imgDirectory, dirFiles, dirIndex>>

\* Defer putting the new job at the head of the queue
DeferAtHead ==
    /\ pc = "route"
    /\ minusMinutes # 0 /\ deferredImageInfo = None
    /\ Len(Matches(deferredImages, cameraID)) = 0
    /\ deferredImages' = <<DeferredJob(timeStart, minusMinutes, cameraID, imgPath)>>
                            \o deferredImages
    /\ classifyImgPath' = imgPath
    /\ pc' = "select"
    /\ UNCHANGED <<minusMinutes, cameras, now, counter, timeStart,
                   deferredImageInfo, fetchFor, cameraID, timestamp, imgPath,
                   segments, fireSegment, annotatedFile, dbResult, baseline,
                   queryLog, scores, detections, alerts, notifications, files,
                   cycles, fails, procs, depth, imgDirectory, dirFiles, dirIndex>>

\* main lines 561-575: temporal-diff mode, fresh frame, camera not queued
Defer ==
    /\ pc = "route"
    /\ minusMinutes # 0 /\ deferredImageInfo = None
    /\ Len(Matches(deferredImages, cameraID)) = 0
    /\ deferredImages' = Append(deferredImages,
                                DeferredJob(timeStart, minusMinutes, cameraID, imgPath))
    /\ classifyImgPath' = imgPath
    /\ pc' = "select"
    /\ UNCHANGED <<minusMinutes, cameras, now, counter, timeStart,
                   deferredImageInfo, fetchFor, cameraID, timestamp, imgPath,
                   segments, fireSegment, annotatedFile, dbResult, baseline,
                   queryLog, scores, detections, alerts, notifications, files,
                   cycles, fails, procs,
                   depth, imgDirectory, dirFiles, dirIndex>>

\* Proceed without the continue of lines 568 and 575: a fresh frame of
\* temporal-diff mode falls through to classification
ProceedRaw ==
    /\ pc = "route"
    /\ IF deferredImageInfo # None
       THEN /\ classifyImgPath' = DiffPath(imgPath, minusMinutes)
            /\ files' = files \cup {DiffPath(imgPath, minusMinutes)}
       ELSE /\ classifyImgPath' = imgPath
            /\ files' = files
    /\ pc' = "classify"
    /\ UNCHANGED <<minusMinutes, cameras, now, counter, deferredImages,
                   timeStart, deferredImageInfo, fetchFor, cameraID, timestamp,
                   imgPath, segments, fireSegment, annotatedFile, dbResult,
                   baseline, queryLog, scores, detections, alerts, notifications,
                   cycles, fails, procs,
                   depth, imgDirectory, dirFiles, dirIndex>>

\* main lines 560, 576-578: the image to classify, the diff against the
\* job's stored image when the frame was fetched for a dequeued job
Proceed ==
    /\ pc = "route"
    /\ ~(minusMinutes # 0 /\ deferredImageInfo = None)
    /\ IF deferredImageInfo # None
       THEN /\ classifyImgPath' = DiffPath(imgPath, minusMinutes)
            /\ files' = files \cup {DiffPath(imgPath, minusMinutes)}
       ELSE /\ classifyImgPath' = imgPath
            /\ files' = files
    /\ pc' = "classify"
    /\ UNCHANGED <<minusMinutes, cameras, now, counter, deferredImages,
                   timeStart, deferredImageInfo, fetchFor, cameraID, timestamp,
                   imgPath, segments, fireSegment, annotatedFile, dbResult,
                   baseline, queryLog, scores, detections, alerts, notifications,
                   cycles, fails, procs,
                   depth, imgDirectory, dirFiles, dirIndex>>

\* main line 581 and recordFilterReport line 473: segmentAndClassify, then
\* recordScores
Classify ==
    /\ pc = "classify"
    /\ \E segs \in SegmentLists(1, ClassifierScores, classifyImgPath) :
          /\ segments' = segs
          /\ files' = files \cup {segs[i].imgPath : i \in DOMAIN segs}
          /\ scores' = RecordScores(scores, cameraID, timestamp, segs, minusMinutes)
    /\ pc' = "postFilter"
    /\ UNCHANGED <<minusMinutes, cameras, now, counter, deferredImages,
                   timeStart, deferredImageInfo, fetchFor, cameraID, timestamp,
                   imgPath, classifyImgPath, fireSegment, annotatedFile,
                   dbResult, baseline, queryLog, detections, alerts,
                   notifications, cycles, fails, procs,
                   depth, imgDirectory, dirFiles, dirIndex>>

\* recordDetection lines 352-365: the row added to table detections
DetectionRow(camera, t, seg, driveFileIDs) ==
    [CameraName |-> camera, Timestamp |-> t,
     MinX |-> seg.MinX, MinY |-> seg.MinY, MaxX |-> seg.MaxX, MaxY |-> seg.MaxY,
     Score |-> seg.score, HistAvg |-> seg.HistAvg, HistMax |-> seg.HistMax,
     HistNumSamples |-> seg.HistNumSamples, ImageID |-> FirstId(driveFileIDs)]

\* recordFilterReport lines 477-482: drawFireBox, recordDetection,
\* checkAndUpdateAlerts and alertFire
Report ==
    /\ pc = "report"
    /\ IF fireSegment # None
       THEN LET ids == <<[id |-> imgPath], [id |-> ScorePath(imgPath)]>>
                r == checkAndUpdateAlerts(alerts, cameraID, timestamp, ids)
            IN  /\ annotatedFile' = ScorePath(imgPath)
                /\ files' = files \cup {ScorePath(imgPath)}
                /\ detections' = Append(detections,
                                        DetectionRow(cameraID, timestamp, fireSegment, ids))
                /\ alerts' = r.alerts
                /\ notifications' =
                      IF r.new
                      THEN Append(notifications,
                                  [camera |-> cameraID, timestamp |-> timestamp])
                      ELSE notifications
       ELSE /\ annotatedFile' = None
            /\ UNCHANGED <<files, detections, alerts, notifications>>
    /\ pc' = "cleanup"
    /\ UNCHANGED <<minusMinutes, cameras, now, counter, deferredImages,
                   timeStart, deferredImageInfo, fetchFor, cameraID, timestamp,
                   imgPath, classifyImgPath, segments, fireSegment, dbResult,
                   baseline, queryLog, scores, cycles, fails, procs,
                   depth, imgDirectory, dirFiles, dirIndex>>

\* Removed without the fetched frame of a cycle that classified a diff image
RemovedKeepsOrig ==
    {segments[i].imgPath : i \in DOMAIN segments}
        \cup {classifyImgPath}
        \cup (IF annotatedFile # None THEN {annotatedFile} ELSE {})
        \cup (IF deferredImageInfo # None THEN {deferredImageInfo.imgPath} ELSE {})

\* deleteImageFiles lines 432-438 and main lines 584-585: the files removed
\* at the end of a cycle; os.remove raises when the file is missing
Removed ==
    {segments[i].imgPath : i \in DOMAIN segments}
        \cup {classifyImgPath}
        \cup (IF classifyImgPath # imgPath THEN {imgPath} ELSE {})
        \cup (IF annotatedFile # None THEN {annotatedFile} ELSE {})
        \cup (IF deferredImageInfo # None THEN {deferredImageInfo.imgPath} ELSE {})

\* recordFilterReport line 483 and main lines 584-585
Cleanup ==
    /\ pc = "cleanup"
    /\ files' = files \ Removed
    /\ pc' = IF Removed \subseteq files THEN "select" ELSE "crashed"
    /\ UNCHANGED <<minusMinutes, cameras, now, counter, deferredImages,
                   timeStart, deferredImageInfo, fetchFor, cameraID, timestamp,
                   imgPath, classifyImgPath, segments, fireSegment, annotatedFile,
                   dbResult, baseline, queryLog, scores, detections, alerts,
                   notifications, cycles, fails, procs,
                   depth, imgDirectory, dirFiles, dirIndex>>

Next ==
    \/ Select
    \/ FetchOk
    \/ FetchFail
    \/ AlreadyQueued
    \/ Defer
    \/ Proceed
    \/ Classify
    \/ PostFilter
    \/ Report
    \/ Cleanup

Spec == Init /\ [][Next]_vars

----------------------------------------------------------------------------
(* The queue of the loop in camera mode with temporal diff, run for ever.   *)
(* Times are kept relative to the start of the current cycle, and a runTime *)
(* that has passed is kept as just passed: the loop only ever compares a    *)
(* runTime with the current time. The cycle of a dequeued job is one step;  *)
(* the tables and the files, which the queue never reads, are left out, and *)
(* the failed fetches in a row stay below the recursion limit.              *)

\* seconds between the starts of two cycles
LiveSteps == {Minute \div 6, Minute + 1}

\* a time seen from a clock origin moved forward by d
Rebase(t, d, floor) == Max(t - d, floor)

RebaseJob(job, d) ==
    [job EXCEPT !.runTime = Rebase(@, d, 0 - 1),
                !.imgPath.unixTime = Rebase(@, d, 0 - 1 - Minute)]

RebaseQueue(queue, d) == [i \in DOMAIN queue |-> RebaseJob(queue[i], d)]

\* main lines 550-558, as Select, the next cycle starting after one of the
\* given numbers of seconds
SelectAfter(steps) ==
    /\ pc = "select"
    /\ \E step \in steps :
          LET r == getDeferrredImgToProcess(deferredImages, minusMinutes, now + step)
          IN  /\ deferredImageInfo' =
                    IF r.img # None THEN RebaseJob(r.img, now + step) ELSE None
              /\ deferredImages' = RebaseQueue(r.queue, now + step)
              /\ fetchFor' = IF r.img # None THEN r.img.cameraID ELSE NoCamera
    /\ now' = 0 /\ timeStart' = 0
    /\ pc' = "fetch"
    /\ UNCHANGED <<minusMinutes, cameras, counter, cameraID, timestamp, imgPath,
                   classifyImgPath, segments, fireSegment, annotatedFile,
                   dbResult, baseline, queryLog, scores, detections, alerts,
                   notifications, files, cycles, fails, procs,
                   depth, imgDirectory, dirFiles, dirIndex>>

\* getNextImage lines 69-78, 82, as FetchOk; only the counter's remainder
\* modulo the number of cameras is kept
LiveFetchOk ==
    /\ pc = "fetch"
    /\ LET r == PickCamera(cameras, fetchFor, counter)
       IN  /\ counter' = r.counter % Len(cameras)
           /\ cameraID' = cameras[r.camera]
           /\ timestamp' = now
           /\ imgPath' = GetImgPath(cameras[r.camera], now)
    /\ pc' = "route"
    /\ UNCHANGED <<minusMinutes, cameras, now, deferredImages, timeStart,
                   deferredImageInfo, fetchFor, classifyImgPath, segments,
                   fireSegment, annotatedFile, dbResult, baseline, queryLog,
                   scores, detections, alerts, notifications, files, cycles,
                   fails, procs, depth, imgDirectory, dirFiles, dirIndex>>

\* getNextImage lines 69-81, as Retry
LiveFetchFail ==
    /\ pc = "fetch"
    /\ counter' = PickCamera(cameras, fetchFor, counter).counter % Len(cameras)
    /\ fetchFor' = RetryFor(fetchFor)
    /\ UNCHANGED <<minusMinutes, cameras, now, deferredImages, pc, timeStart,
                   deferredImageInfo, cameraID, timestamp, imgPath,
                   classifyImgPath, segments, fireSegment, annotatedFile,
                   dbResult, baseline, queryLog, scores, detections, alerts,
                   notifications, files, cycles, fails, procs,
                   depth, imgDirectory, dirFiles, dirIndex>>

\* main lines 576-585: the cycle of a dequeued job, from the diff image to
\* the removal of the job's image
LiveProcess ==
    /\ pc = "route"
    /\ deferredImageInfo # None
    /\ classifyImgPath' = DiffPath(imgPath, minusMinutes)
    /\ pc' = "select"
    /\ UNCHANGED <<minusMinutes, cameras, now, counter, deferredImages,
                   timeStart, deferredImageInfo, fetchFor, cameraID, timestamp,
                   imgPath, segments, fireSegment, annotatedFile, dbResult,
                   baseline, queryLog, scores, detections, alerts, notifications,
                   files, cycles, fails, procs,
                   depth, imgDirectory, dirFiles, dirIndex>>

LiveSelect == SelectAfter(LiveSteps)

InitLive ==
    /\ IdleStore /\ IdleSource /\ procs = <<>>
    /\ minusMinutes = 1
    /\ \E n \in 1..MaxCameras : cameras = [i \in 1..n |-> i]
    /\ now = 0 /\ counter \in {0, 1} /\ counter < Len(cameras)
    /\ deferredImages = <<>>
    /\ pc = "select"
    /\ timeStart = 0 /\ deferredImageInfo = None /\ fetchFor = NoCamera
    /\ cameraID = NoCamera /\ timestamp = 0
    /\ imgPath = None /\ classifyImgPath = None
    /\ segments = <<>> /\ annotatedFile = None
    /\ scores = <<>>
    /\ files = {} /\ cycles = 0 /\ fails = 0

NextLive ==
    \/ LiveSelect
    \/ LiveFetchOk
    \/ LiveFetchFail
    \/ AlreadyQueued
    \/ Defer
    \/ LiveProcess

\* the loop keeps cycling, and a fetch that keeps being retried succeeds in
\* the end
SpecLive ==
    InitLive /\ [][NextLive]_vars /\ WF_vars(NextLive) /\ WF_vars(LiveFetchOk)

----------------------------------------------------------------------------
(* The queue of the loop over up to MaxQueue cameras, with cycles that      *)
(* start a second apart, so that the queue fills before its head's runTime  *)
(* has passed; every fetch succeeds.                                        *)

\* seconds between the starts of two cycles
DrainSteps == {1, Minute + 1}

DrainSelect == SelectAfter(DrainSteps)

InitDrain ==
    /\ IdleStore /\ IdleSource /\ procs = <<>>
    /\ minusMinutes = 1
    /\ \E n \in 1..MaxQueue : cameras = [i \in 1..n |-> i]
    /\ now = 0 /\ counter = 0 /\ deferredImages = <<>>
    /\ pc = "select"
    /\ timeStart = 0 /\ deferredImageInfo = None /\ fetchFor = NoCamera
    /\ cameraID = NoCamera /\ timestamp = 0
    /\ imgPath = None /\ classifyImgPath = None
    /\ segments = <<>> /\ annotatedFile = None
    /\ scores = <<>>
    /\ files = {} /\ cycles = 0 /\ fails = 0

NextDrain ==
    \/ DrainSelect
    \/ LiveFetchOk
    \/ AlreadyQueued
    \/ Defer
    \/ LiveProcess

SpecDrain == InitDrain /\ [][NextDrain]_vars

----------------------------------------------------------------------------
(* The loop in directory-replay mode, without temporal diff *)

MaxFiles == 3

\* a file name that img_archive.parseFilename does not parse
Unparsed == [cameraID |-> NoCamera, unixTime |-> 0]

\* what parseFilename makes of the file names of the replayed directories
DirEntries == {Unparsed, [cameraID |-> 1, unixTime |-> Hour],
               [cameraID |-> 1, unixTime |-> Hour + Minute]}

\* no two files of a directory have the same name
DistinctNames(fs) ==
    \A i, j \in DOMAIN fs : (i # j /\ fs[i] # Unparsed) => fs[i] # fs[j]

\* getNextImageFromDir line 115: the copy of the file at 0-based position ix;
\* a parseable name encodes camera and time as getImgPath does
DestPath(fs, ix) ==
    IF fs[ix + 1] # Unparsed
    THEN GetImgPath(fs[ix + 1].cameraID, fs[ix + 1].unixTime)
    ELSE [cameraID |-> NoCamera, unixTime |-> ix, diffMinutes |-> 0, part |-> "img"]

\* getNextImageFromDir lines 111-117, 121: the next file parses and is returned
DirDeliver ==
    /\ pc = "fetchDir"
    /\ dirIndex + 1 < Len(dirFiles)
    /\ dirFiles[dirIndex + 2] # Unparsed
    /\ dirIndex' = dirIndex + 1
    /\ cameraID' = dirFiles[dirIndex + 2].cameraID
    /\ timestamp' = dirFiles[dirIndex + 2].unixTime
    /\ imgPath' = DestPath(dirFiles, dirIndex + 1)
    /\ files' = files \cup {DestPath(dirFiles, dirIndex + 1)}
    /\ depth' = 0
    /\ pc' = "route"
    /\ UNCHANGED <<minusMinutes, cameras, now, counter, deferredImages,
                   timeStart, deferredImageInfo, fetchFor, classifyImgPath,
                   segments, fireSegment, annotatedFile, dbResult, baseline,
                   queryLog, scores, detections, alerts, notifications, cycles,
                   fails, procs, imgDirectory, dirFiles>>

\* getNextImageFromDir lines 111-120: the next file does not parse and
\* getNextImageFromDir calls itself; the call that exceeds the recursion
\* limit raises RecursionError
DirSkip ==
    /\ pc = "fetchDir"
    /\ dirIndex + 1 < Len(dirFiles)
    /\ dirFiles[dirIndex + 2] = Unparsed
    /\ dirIndex' = dirIndex + 1
    /\ files' = files \cup {DestPath(dirFiles, dirIndex + 1)}
    /\ depth' = depth + 1
    /\ pc' = IF depth + 1 < RecursionLimit THEN "fetchDir" ELSE "crashed"
    /\ UNCHANGED <<minusMinutes, cameras, now, counter, deferredImages,
                   timeStart, deferredImageInfo, fetchFor, cameraID, timestamp,
                   imgPath, classifyImgPath, segments, fireSegment,
                   annotatedFile, dbResult, baseline, queryLog, scores,
                   detections, alerts, notifications, cycles, fails, procs,
                   imgDirectory, dirFiles>>

\* getNextImageFromDir lines 110-111, 122-123: the list is used up, exit(0)
DirExit ==
    /\ pc = "fetchDir"
    /\ dirIndex + 1 >= Len(dirFiles)
    /\ dirIndex' = dirIndex + 1
    /\ pc' = "exit"
    /\ UNCHANGED <<minusMinutes, cameras, now, counter, deferredImages,
                   timeStart, deferredImageInfo, fetchFor, cameraID, timestamp,
                   imgPath, classifyImgPath, segments, fireSegment,
                   annotatedFile, dbResult, baseline, queryLog, scores,
                   detections, alerts, notifications, files, cycles, fails,
                   procs, depth, imgDirectory, dirFiles>>

\* directories of up to MaxFiles files, and one of RecursionLimit files
\* whose names do not parse
InitDir ==
    /\ IdleStore /\ procs = <<>>
    /\ minusMinutes = 0 /\ cameras = <<1>>
    /\ now = 0 /\ counter = 0 /\ deferredImages = <<>>
    /\ pc = "select"
    /\ timeStart = 0 /\ deferredImageInfo = None /\ fetchFor = NoCamera
    /\ cameraID = NoCamera /\ timestamp = 0
    /\ imgPath = None /\ classifyImgPath = None
    /\ segments = <<>> /\ annotatedFile = None
    /\ scores = <<>>
    /\ files = {} /\ cycles = 0 /\ fails = 0
    /\ depth = 0 /\ imgDirectory = TRUE /\ dirIndex = 0 - 1
    /\ \/ \E n \in 0..MaxFiles :
             /\ dirFiles \in [1..n -> DirEntries]
             /\ DistinctNames(dirFiles)
       \/ dirFiles = [i \in 1..RecursionLimit |-> Unparsed]

NextDir ==
    \/ Select
    \/ DirDeliver
    \/ DirSkip
    \/ DirExit
    \/ Proceed
    \/ Classify
    \/ PostFilter
    \/ Report
    \/ Cleanup

SpecDir == InitDir /\ [][NextDir]_vars

----------------------------------------------------------------------------
(* getNextImage of the first cycle, with any number of failed fetches *)

\* a failed fetch after any number of failed fetches
FetchFailAgain == Retry(RecursionLimit)

NextRetry ==
    \/ Select
    \/ FetchOk
    \/ FetchFailAgain

SpecRetry == Init /\ [][NextRetry]_vars

----------------------------------------------------------------------------
(* Properties *)

\* the alerts rows of a camera
AlertsOf(camera) == {i \in DOMAIN alerts : alerts[i].CameraName = camera}

\* the timestamps of the DetectionEvents of a camera, in the order of the calls
EventsOf(camera) ==
    LET ev == SelectSeq(detections, LAMBDA d : d.CameraName = camera)
    IN  [i \in DOMAIN ev |-> ev[i].Timestamp]

AllIdle == \A p \in DOMAIN procs : procs[p].pc = "idle"

C2_NoDoubleAlert ==
    \A i, j \in DOMAIN alerts :
        (i < j /\ alerts[i].CameraName = alerts[j].CameraName)
            => \/ alerts[i].Timestamp >= alerts[j].Timestamp + Hour * RecentHours
               \/ alerts[j].Timestamp >= alerts[i].Timestamp + Hour * RecentHours

InCycle == pc \in {"classify", "postFilter", "report", "cleanup"}

\* the scores rows written by the current cycle
OwnRows == RowsAfter(scores, Len(scores) - Len(segments))

\* C3: in temporal-diff mode, whenever a diff image is classified the fetched
\* frame and the baseline image of the dequeued job belong to the same
\* camera, and the cycle's ScoreRecords are attributed to that camera.
C3_DiffSameCamera ==
    (InCycle /\ deferredImageInfo # None)
        => /\ imgPath.cameraID = deferredImageInfo.imgPath.cameraID
           /\ cameraID = deferredImageInfo.cameraID
           /\ (pc \in {"postFilter", "report", "cleanup"}
                  => \A r \in OwnRows : r.CameraName = deferredImageInfo.cameraID)

\* C4: the DeferredJob queue holds at most one job per camera.
C4_OneJobPerCamera ==
    \A i, j \in DOMAIN deferredImages :
        i # j => deferredImages[i].cameraID # deferredImages[j].cameraID

\* C4 witness: a frame of a queued camera has just been skipped while every
\* camera has its job queued
C4_Witness ==
    /\ pc = "select" /\ cycles >= 3
    /\ Len(deferredImages) = 2
    /\ Len(Matches(deferredImages, cameraID)) = 1
    /\ imgPath # deferredImages[1].imgPath /\ imgPath # deferredImages[2].imgPath

\* C5: a single segment with score >= 0.5 whose box is a historical group of
\* maximum m is returned if and only if score > (m+1)/2 and score > m + 0.1;
\* for m = 0.6 a score of 0.79 is not returned and 0.81 is.
C5_ThresholdRule ==
    (pc = "report" /\ Len(segments) = 1 /\ segments[1].score >= Half)
        => \A row \in dbResult :
              BoxOf(segments[1]) = <<row.minx, row.miny, row.maxx, row.maxy>>
                  => /\ (fireSegment # None)
                            <=> /\ 2 * segments[1].score > row.maxs + 100
                                /\ segments[1].score > row.maxs + 10
                     /\ (row.maxs = 60 /\ segments[1].score = 79) => fireSegment = None
                     /\ (row.maxs = 60 /\ segments[1].score = 81) => fireSegment # None

\* C5 witness: maximum 0.6, score 0.81 returned
C5_Witness ==
    /\ pc = "report" /\ Len(segments) = 1 /\ segments[1].score = 81
    /\ \E row \in dbResult : row.maxs = 60 /\ row.cnt = 1
    /\ fireSegment # None /\ fireSegment.score = 81 /\ fireSegment.HistMax = 60

\* the historical group of a segment among rows, as a set (empty when none)
GroupOf(rows, seg) ==
    {row \in rows : <<row.minx, row.miny, row.maxx, row.maxy>> = BoxOf(seg)}

\* the segment qualifies against rows
Qualifies(rows, seg) ==
    /\ seg.score >= Half
    /\ \E row \in GroupOf(rows, seg) :
          /\ 2 * seg.score > row.maxs + 100
          /\ seg.score > row.maxs + 10

\* C6: postFilter returns none exactly when no segment qualifies, and else
\* the qualifying segment of highest score, the earliest in the list among
\* equal scores, with the avg/max/count of its own historical group.
C6_BestQualifying ==
    [][pc = "postFilter" =>
        LET rows == dbResult'
            Q == {i \in DOMAIN segments : Qualifies(rows, segments[i])}
        IN  IF Q = {} THEN fireSegment' = None
            ELSE \E i \in Q :
                    /\ \A j \in Q : \/ segments[j].score < segments[i].score
                                    \/ (segments[j].score = segments[i].score /\ j >= i)
                    /\ fireSegment' # None
                    /\ BoxOf(fireSegment') = BoxOf(segments[i])
                    /\ fireSegment'.score = segments[i].score
                    /\ fireSegment'.imgPath = segments[i].imgPath
                    /\ \E row \in GroupOf(rows, segments[i]) :
                          /\ fireSegment'.HistAvg = row.avgs
                          /\ fireSegment'.HistMax = row.maxs
                          /\ fireSegment'.HistNumSamples = row.cnt]_vars

\* C6 witness: two qualifying segments of equal score, the first returned
\* with the statistics of its own group, which differ from the other's
C6_Witness ==
    /\ pc = "report" /\ Len(segments) = 2
    /\ segments[1].score = segments[2].score
    /\ Qualifies(dbResult, segments[2])
    /\ fireSegment # None /\ BoxOf(fireSegment) = BoxOf(segments[1])
    /\ \E row \in GroupOf(dbResult, segments[2]) : row.maxs # fireSegment.HistMax
    /\ fireSegment.HistNumSamples = 2

\* C7: a segment whose box has no historical group is never returned, and a
\* detection, alert or notification of a camera only exists when table scores
\* holds a row of that camera more than 12 hours older.
C7_NoHistoryNoDetection ==
    /\ (pc = "report" /\ fireSegment # None) => GroupOf(dbResult, fireSegment) # {}
    /\ \A i \in DOMAIN detections : \E j \in DOMAIN scores :
          /\ scores[j].CameraName = detections[i].CameraName
          /\ BoxOf(scores[j]) = BoxOf(detections[i])
          /\ scores[j].Timestamp < detections[i].Timestamp - 12 * Hour
    /\ \A i \in DOMAIN alerts : \E j \in DOMAIN scores :
          /\ scores[j].CameraName = alerts[i].CameraName
          /\ scores[j].Timestamp < alerts[i].Timestamp - 12 * Hour
    /\ \A i \in DOMAIN notifications : \E j \in DOMAIN scores :
          /\ scores[j].CameraName = notifications[i].camera
          /\ scores[j].Timestamp < notifications[i].timestamp - 12 * Hour

\* C7 witness: a segment of score 0.9 without history is not returned, while
\* another camera has rows older than 12 hours and a detection
C7_Witness ==
    /\ pc = "report" /\ segments[1].score = 90 /\ queryLog # <<>>
    /\ dbResult = {} /\ fireSegment = None
    /\ \A j \in DOMAIN scores :
          scores[j].CameraName = cameraID => scores[j].Timestamp >= timestamp - 12 * Hour
    /\ \A i \in DOMAIN detections : detections[i].CameraName # cameraID
    /\ detections # <<>>

\* C8: when the top score is below 0.5 postFilter returns none and issues no
\* query: the query log and the tables are unchanged by the call.
C8_NoQueryBelowHalf ==
    [][(pc = "postFilter" /\ segments[1].score < Half)
          => /\ fireSegment' = None
             /\ queryLog' = queryLog
             /\ scores' = scores /\ detections' = detections /\ alerts' = alerts]_vars

\* C8 witness: a call with top score below 0.5 on a store with history has
\* returned none with an empty query log
C8_Witness ==
    /\ pc = "report" /\ segments[1].score < Half /\ Len(segments) = 2
    /\ fireSegment = None /\ queryLog = <<>> /\ Len(scores) >= 2

\* C9: every row in the baseline of a decision at timestamp t has Timestamp
\* strictly between t - 3.5 days and t - 12 hours, and none of them is a row
\* the same cycle wrote before postFilter ran.
C9_BaselineExcludesOwnRows ==
    (pc \in {"report", "cleanup"})
        => /\ \A r \in baseline : /\ 2 * r.Timestamp > 2 * timestamp - 7 * DaySeconds
                                  /\ r.Timestamp < timestamp - 12 * Hour
           /\ baseline \cap OwnRows = {}
           /\ OwnRows # {}
           /\ \A r \in OwnRows : r.Timestamp = timestamp /\ r.CameraName = cameraID

\* C9 witness: a decision whose query ran on a store holding the cycle's own
\* rows found a baseline
C9_Witness ==
    /\ pc = "report" /\ queryLog # <<>> /\ baseline # {}
    /\ segments[1].score >= Half /\ OwnRows # {}

\* C10: for minusMinutes > 0, getDeferrredImgToProcess returns the head job if
\* and only if the queue is non-empty and 3 * len(queue) >= 60 * minusMinutes
\* or the head's runTime is before now; then exactly the head is removed and
\* the rest keeps its order; otherwise it returns none and the queue is unchanged.
C10_NextReady ==
    [][(pc = "ready" /\ minusMinutes > 0) =>
        IF /\ deferredImages # <<>>
           /\ \/ 3 * Len(deferredImages) >= 60 * minusMinutes
              \/ Head(deferredImages).runTime < now
        THEN /\ deferredImageInfo' = Head(deferredImages)
             /\ deferredImages' = Tail(deferredImages)
        ELSE /\ deferredImageInfo' = None
             /\ deferredImages' = deferredImages]_vars

\* C10 witness: the head was returned because its runTime had elapsed while
\* the drain estimate was below 60 * minusMinutes, and the rest stayed queued
C10_Witness ==
    /\ pc = "returned" /\ deferredImageInfo # None
    /\ deferredImageInfo.runTime < now
    /\ 3 * (Len(deferredImages) + 1) < 60 * minusMinutes
    /\ Len(deferredImages) >= 2
    /\ deferredImages[1].cameraID = deferredImageInfo.cameraID + 1

\* a fresh frame of temporal-diff mode has arrived for a camera with a queued job
FreshForQueued ==
    /\ pc = "route" /\ minusMinutes # 0 /\ deferredImageInfo = None
    /\ \E i \in DOMAIN deferredImages : deferredImages[i].cameraID = cameraID

\* C11: a fresh frame of temporal-diff mode for a camera with a queued job is
\* not enqueued: the queue keeps the existing job as it is, and nothing is
\* scored or persisted in that cycle.
C11_DuplicateRejected ==
    [][FreshForQueued
          => /\ deferredImages' = deferredImages
             /\ scores' = scores /\ detections' = detections
             /\ alerts' = alerts /\ notifications' = notifications
             /\ queryLog' = queryLog
             /\ pc' # "classify"]_vars

\* C11 witness: the frame of a queued camera was skipped while the camera's
\* first job, with its earlier image and runTime, is still queued
C11_Witness ==
    /\ pc = "select" /\ minusMinutes # 0 /\ deferredImageInfo = None
    /\ cycles >= 2 /\ Len(scores) <= 1
    /\ \E i \in DOMAIN deferredImages :
          /\ deferredImages[i].cameraID = cameraID
          /\ deferredImages[i].imgPath.unixTime < imgPath.unixTime
          /\ deferredImages[i].runTime < timeStart + 60 * minusMinutes

\* C12, as claimed: a fresh frame for a camera with a queued job ends the loop
\* in an assertion failure.
C12_DuplicateIsFatal ==
    [][FreshForQueued => pc' = "crashed"]_vars

\* C12, amended: a fresh frame for a camera with a queued job fails no
\* assertion; the loop naps 2 seconds and goes on with the next cycle, and the
\* loop is never in a crashed state.
C12_DuplicateSkipped ==
    [][/\ FreshForQueued => (pc' = "select" /\ now' = now + 2)
       /\ pc' # "crashed"]_vars

\* C12 witness: the loop is at its head again, 2 seconds after the start of a
\* cycle that fetched a frame of a queued camera
C12_Witness ==
    /\ pc = "select" /\ minusMinutes # 0 /\ deferredImageInfo = None
    /\ now = timeStart + 2
    /\ Len(deferredImages) = Len(cameras) /\ Len(cameras) = 2
    /\ \E i \in DOMAIN deferredImages :
          deferredImages[i].cameraID = cameraID /\ deferredImages[i].imgPath # imgPath

\* the ScoreRecords written since the loop started, in the order written; in
\* a run without temporal diff every cycle writes one, for the camera it selected
RunRows == SelectSeq(scores, LAMBDA r : r.Timestamp > 0)

\* C14: with no deferred job ever pending (minusMinutes = 0) and no fetch
\* failure, any N consecutive cycles select each of the N cameras exactly once.
C14_RoundRobin ==
    (minusMinutes = 0 /\ fails = 0)
        => \A k \in 1..(Len(RunRows) - Len(cameras) + 1) :
              \A c \in 1..Len(cameras) :
                 Cardinality({i \in k..(k + Len(cameras) - 1) :
                                 RunRows[i].CameraName = cameras[c]}) = 1

\* C14 witness: more cycles than cameras have run over several cameras, so
\* that two overlapping windows are complete
C14_Witness ==
    /\ minusMinutes = 0 /\ fails = 0 /\ Len(cameras) >= 2
    /\ Len(RunRows) > Len(cameras)
    /\ RunRows[1].CameraName = RunRows[Len(cameras) + 1].CameraName

\* the files of the cycle in progress: everything stored under the camera and
\* capture time of the fetched frame, and the image of the dequeued job
CycleFiles ==
    {f \in files : f.cameraID = cameraID /\ f.unixTime = timestamp}
        \cup (IF deferredImageInfo # None THEN {deferredImageInfo.imgPath} ELSE {})

\* C15: at the end of every cycle that reached classification the crops, the
\* fetched frame, the diff frame, the annotated frame and the image of the
\* dequeued job are all deleted, and the cycle ends at the loop head.
C15_TransientFilesDeleted ==
    [][pc = "cleanup" => (pc' = "select" /\ files' \cap CycleFiles = {})]_vars

\* C15 witness: a cycle that dequeued a job, classified the diff image and
\* drew an annotated frame has ended, and none of its files is left
C15_Witness ==
    /\ pc = "select" /\ cycles > 0
    /\ deferredImageInfo # None /\ annotatedFile # None
    /\ classifyImgPath # imgPath /\ segments # <<>>
    /\ CycleFiles \cap files = {}
    /\ \A f \in {imgPath, classifyImgPath, annotatedFile, segments[1].imgPath,
                 deferredImageInfo.imgPath} : f \notin files

\* the last row of a table is of the camera and capture time of the cycle
LastIsOfCycle(tbl) ==
    /\ tbl # <<>>
    /\ tbl[Len(tbl)].CameraName = cameraID /\ tbl[Len(tbl)].Timestamp = timestamp

\* no AlertRecord of the cycle's camera in the 12 hours before its capture time
NoRecentAlert ==
    \A i \in DOMAIN alerts :
        ~(alerts[i].CameraName = cameraID
          /\ alerts[i].Timestamp > timestamp - 12 * Hour)

\* C16: a cycle adds at most one detection; it adds an AlertRecord only
\* together with a detection of the same camera and timestamp; it sends a
\* notification exactly when it adds an AlertRecord; there are as many
\* notifications as AlertRecords and at most as many as detections; and a
\* detection on a camera with no AlertRecord in the last 12 hours adds exactly
\* one detection, one AlertRecord and one notification.
C16_CountsConsistent ==
    [][/\ Len(detections') - Len(detections) \in {0, 1}
       /\ Len(alerts') - Len(alerts) \in {0, 1}
       /\ Len(alerts') > Len(alerts)
             => /\ Len(detections') > Len(detections)
                /\ LastIsOfCycle(alerts') /\ LastIsOfCycle(detections')
       /\ Len(notifications') - Len(notifications) = Len(alerts') - Len(alerts)
       /\ Len(notifications') > Len(notifications)
             => /\ notifications'[Len(notifications')].camera = cameraID
                /\ notifications'[Len(notifications')].timestamp = timestamp
       /\ Len(notifications') = Len(alerts') /\ Len(alerts') <= Len(detections')
       /\ (pc = "report" /\ fireSegment # None /\ NoRecentAlert)
             => /\ Len(detections') = Len(detections) + 1
                /\ Len(alerts') = Len(alerts) + 1
                /\ Len(notifications') = Len(notifications) + 1
       /\ (pc # "report" \/ fireSegment = None)
             => /\ detections' = detections /\ alerts' = alerts
                /\ notifications' = notifications]_vars

\* C16 witness: one cycle reported a detection with an alert and a
\* notification, a later one a detection whose alert was suppressed
C16_Witness ==
    /\ pc = "cleanup" /\ fireSegment # None
    /\ Len(detections) = 2 /\ Len(alerts) = 1 /\ Len(notifications) = 1
    /\ LastIsOfCycle(detections) /\ ~LastIsOfCycle(alerts)

\* C19: in temporal-diff mode a cycle with a fresh frame enqueues or skips it
\* and writes no ScoreRecord, detection or alert; only a cycle that dequeued a
\* job classifies, and it classifies the diff image, so every ScoreRecord
\* written stems from such a cycle. With minusMinutes = 0 the queue stays
\* empty and every fetched frame is classified, as it is, in its own cycle.
C19_OnlyDiffClassified ==
    [][/\ (minusMinutes # 0 /\ pc = "route" /\ deferredImageInfo = None)
             => /\ pc' = "select"
                /\ scores' = scores /\ detections' = detections /\ alerts' = alerts
       /\ (minusMinutes # 0 /\ pc # "classify" /\ pc' = "classify")
             => /\ deferredImageInfo # None
                /\ classifyImgPath' # imgPath
                /\ classifyImgPath'.diffMinutes = minusMinutes
       /\ (minusMinutes # 0 /\ scores' # scores)
             => /\ deferredImageInfo # None
                /\ classifyImgPath = DiffPath(imgPath, minusMinutes)
                /\ \A i \in (Len(scores) + 1)..Len(scores') :
                      scores'[i].MinusMinutes = minusMinutes
       /\ minusMinutes = 0
             => /\ deferredImages' = <<>> /\ deferredImageInfo' = None
                /\ pc = "route" => (pc' = "classify" /\ classifyImgPath' = imgPath)
                /\ pc = "classify" => (scores' # scores /\ classifyImgPath = imgPath)]_vars

\* C19 witness: in temporal-diff mode the rows of a diff image have been
\* written by a cycle that dequeued a job, while another job waits
C19_Witness ==
    /\ minusMinutes # 0 /\ pc = "postFilter" /\ deferredImageInfo # None
    /\ classifyImgPath = DiffPath(imgPath, minusMinutes)
    /\ scores # <<>> /\ scores[Len(scores)].Timestamp = timestamp
    /\ scores[Len(scores)].MinusMinutes = minusMinutes

\* C13: a failed fetch is never fatal: getNextImage retries, and the cycle
\* goes on with a frame once a fetch succeeds; no run of failed fetches ends
\* in a crashed loop.
C13_FetchFailureNotFatal ==
    [][pc = "fetch" => pc' \in {"fetch", "route"}]_vars

\* the files of the directory whose names parse, in list order
Parseable == SelectSeq(dirFiles, LAMBDA f : f # Unparsed)

\* C17: in directory-replay mode without temporal diff the file list is
\* consumed in list order, each parseable file goes to one cycle and to one
\* only, a file whose name does not parse gets no cycle, and the process ends
\* with a normal exit, never a crash, in the selection step after the last
\* file, after as many cycles as there are parseable files.
C17_ReplayTerminates ==
    /\ pc # "crashed"
    /\ Len(scores) <= Len(Parseable)
    /\ \A i \in DOMAIN scores :
          /\ scores[i].CameraName = Parseable[i].cameraID
          /\ scores[i].Timestamp = Parseable[i].unixTime
    /\ pc = "exit" => (Len(scores) = Len(Parseable) /\ dirIndex = Len(dirFiles))

\* distance of two times of day on the 24-hour circle
CyclicGap(a, b) ==
    LET d == (a - b) % DaySeconds
    IN  IF d < DaySeconds - d THEN d ELSE DaySeconds - d

\* C18: the baseline of a decision holds every ScoreRecord of the camera
\* inside the lookback window whose seconds-into-day is less than one hour
\* from the decision's, counted around midnight: a decision at 1800 s has the
\* records at 85500 s in its band, and the other way round.
C18_DayCyclicBand ==
    (pc = "report" /\ queryLog # <<>>)
        => \A i \in DOMAIN scores :
              (/\ scores[i].CameraName = cameraID
               /\ scores[i].Timestamp > timestamp - Hour * 84
               /\ scores[i].Timestamp < timestamp - Hour * 12
               /\ CyclicGap(scores[i].SecondsInDay, SecondsInDay(timestamp)) < Hour)
                  => scores[i] \in baseline

\* camera c has a job in the queue
Queued(c) == \E i \in DOMAIN deferredImages : deferredImages[i].cameraID = c

\* the cameras of the queued jobs, in queue order
QueuedCameras(queue) == [i \in DOMAIN queue |-> queue[i].cameraID]

\* C20: in camera mode, with the loop cycling, the clock advancing between
\* cycles and fetches succeeding in the end, every enqueued job is eventually
\* dequeued, and jobs leave the queue in the order they entered it: a job
\* enters at the tail and only the head job leaves.
C20_QueueDrains ==
    /\ \A c \in 1..MaxCameras :
          Queued(c) ~> (deferredImageInfo # None /\ deferredImageInfo.cameraID = c
                        /\ ~Queued(c))
    /\ [][\/ QueuedCameras(deferredImages') = QueuedCameras(deferredImages)
          \/ /\ deferredImages # <<>>
             /\ QueuedCameras(deferredImages') = Tail(QueuedCameras(deferredImages))
             /\ deferredImageInfo' # None
             /\ deferredImageInfo'.cameraID = deferredImages[1].cameraID
          \/ /\ Len(deferredImages') = Len(deferredImages) + 1
             /\ QueuedCameras(deferredImages')
                   = Append(QueuedCameras(deferredImages), cameraID)]_vars

\* C20 witness: the job enqueued first has been dequeued once its runTime had
\* passed, while the job enqueued after it waits
C20_Witness ==
    /\ pc = "route" /\ minusMinutes # 0
    /\ deferredImageInfo # None /\ deferredImageInfo.runTime < 0
    /\ deferredImages # <<>>
    /\ deferredImages[1].cameraID # deferredImageInfo.cameraID
    /\ deferredImages[1].imgPath.unixTime >= deferredImageInfo.imgPath.unixTime

\* the images that the queued jobs refer to
QueuedImages == {deferredImages[i].imgPath : i \in DOMAIN deferredImages}

\* C21: at the end of every cycle the image files in the temporary directory
\* are exactly the images of the queued jobs; no fetched frame stays on disk
\* that is neither queued nor deleted, also not after a cycle whose frame was
\* of an already queued camera or whose deferred fetch was retried.
C21_OnlyQueuedImagesOnDisk ==
    (pc = "select") => files = QueuedImages

\* C22: the queue is bounded by the drain estimate: in every reachable state
\* 3 * len(queue) <= 60 * minusMinutes, that is at most 20 * minusMinutes
\* jobs, and never more jobs than cameras; a job is only enqueued in a cycle
\* whose call of getDeferrredImgToProcess returned none.
C22_QueueBounded ==
    [][/\ 3 * Len(deferredImages') <= 60 * minusMinutes
       /\ Len(deferredImages') <= 20 * minusMinutes
       /\ Len(deferredImages') <= Len(cameras)
       /\ Len(deferredImages') > Len(deferredImages)
             => (pc = "route" /\ deferredImageInfo = None)]_vars

\* C22 witness: over more than 20 cameras the queue holds 20 jobs, none of
\* them due yet, and the next cycle has dequeued the head on the estimate
C22_Witness ==
    /\ Len(cameras) > 20 /\ minusMinutes = 1
    /\ pc = "fetch" /\ deferredImageInfo # None /\ deferredImageInfo.runTime > now
    /\ Len(deferredImages) = 19

\* C23: the runTime values of the queue never decrease from head to tail, so
\* the head has the earliest deadline, and whenever the runTime of any queued
\* job has passed at the start of a cycle, that cycle dequeues a job, the head.
C23_DeadlinesInOrder ==
    [][/\ \A i, j \in DOMAIN deferredImages' :
             i < j => deferredImages'[i].runTime <= deferredImages'[j].runTime
       /\ (/\ pc = "select" /\ pc' # "select"
           /\ \E i \in DOMAIN deferredImages : deferredImages[i].runTime < now')
             => /\ deferredImageInfo' = deferredImages[1]
                /\ \A i \in DOMAIN deferredImages :
                      deferredImages[1].runTime <= deferredImages[i].runTime
                /\ Len(deferredImages') = Len(deferredImages) - 1]_vars

\* C23 witness: two jobs were queued and the runTime of both has passed at
\* the start of the cycle, which has dequeued the one enqueued first
C23_Witness ==
    /\ pc = "fetch" /\ deferredImageInfo # None
    /\ deferredImages # <<>>
    /\ deferredImageInfo.runTime < deferredImages[1].runTime
    /\ deferredImages[1].runTime < now

====
